---- MODULE Spec2Model ----
(***************************************************************************)
(* ELIZA (src/ELIZA/main.py): the rule table, the reflection table, the    *)
(* pronoun reflector and the read / match / reply loop of eliza_chat.      *)
(* A string is a sequence of one-character strings; in the comments the    *)
(* sequence <<"y","e","s">> is written "yes".                              *)
(***************************************************************************)
EXTENDS Integers, Sequences, FiniteSets, TLC

VARIABLES pc, input_text, pattern_i, matched, stdout, eof

vars == <<pc, input_text, pattern_i, matched, stdout, eof>>

(* ---------------------------------------------------------------------- *)
(* Bounds of the input domain                                             *)
(* ---------------------------------------------------------------------- *)

\* the largest number of words that follow the head of an input line
MaxWords == 2

(* ---------------------------------------------------------------------- *)
(* Characters and strings                                                 *)
(* ---------------------------------------------------------------------- *)

UpperCase == <<"A","B","C","D","E","F","G","H","I","J","K","L","M","N","O","P","Q","R","S","T","U","V","W","X","Y","Z">>
LowerCase == <<"a","b","c","d","e","f","g","h","i","j","k","l","m","n","o","p","q","r","s","t","u","v","w","x","y","z">>

\* str.lower on one character
Lower(c) ==
    IF \E k \in 1..26 : UpperCase[k] = c
    THEN LowerCase[CHOOSE k \in 1..26 : UpperCase[k] = c]
    ELSE c

\* str.lower
str_lower(s) == [k \in 1..Len(s) |-> Lower(s[k])]

\* the characters str.split() separates on
Whitespace == {" ", "\t", "\n", "\r"}

\* str.split() with no argument: the maximal runs of non-whitespace
RECURSIVE SplitFrom(_, _, _)
SplitFrom(s, k, word) ==
    IF k > Len(s)
    THEN IF word = <<>> THEN <<>> ELSE <<word>>
    ELSE IF s[k] \in Whitespace
         THEN IF word = <<>>
              THEN SplitFrom(s, k + 1, <<>>)
              ELSE <<word>> \o SplitFrom(s, k + 1, <<>>)
         ELSE SplitFrom(s, k + 1, Append(word, s[k]))

str_split(s) == SplitFrom(s, 1, <<>>)

\* " ".join(words)
RECURSIVE str_join(_)
str_join(words) ==
    IF words = <<>> THEN <<>>
    ELSE IF Len(words) = 1 THEN words[1]
    ELSE words[1] \o <<" ">> \o str_join(Tail(words))

(* ---------------------------------------------------------------------- *)
(* The tables                                                             *)
(* ---------------------------------------------------------------------- *)

\* the one group the patterns use, "(.*)", as one element of a pattern
DotStar == "(.*)"

\* the table declared in another order: "i (.*) you" ahead of "i feel (.*)"
responses_reordered == <<
    [pattern |-> <<"i"," ">> \o <<DotStar>> \o <<" ","y","o","u">>,
     phrases |-> <<<<"W","h","y"," ","d","o"," ","y","o","u"," ","{","}"," ","m","e","?">>, <<"W","h","a","t"," ","m","a","k","e","s"," ","y","o","u"," ","t","h","i","n","k"," ","y","o","u"," ","{","}"," ","m","e","?">>>>],
    [pattern |-> <<"i"," ","f","e","e","l"," ">> \o <<DotStar>>,
     phrases |-> <<<<"W","h","y"," ","d","o"," ","y","o","u"," ","f","e","e","l"," ","{","}","?">>, <<"H","o","w"," ","l","o","n","g"," ","h","a","v","e"," ","y","o","u"," ","f","e","l","t"," ","{","}","?">>,
                   <<"D","o"," ","y","o","u"," ","t","h","i","n","k"," ","f","e","e","l","i","n","g"," ","{","}"," ","i","s"," ","n","o","r","m","a","l","?">>>>],
    [pattern |-> <<"w","h","y"," ","d","o"," ","y","o","u"," ">> \o <<DotStar>>,
     phrases |-> <<<<"W","h","y"," ","d","o","e","s"," ","i","t"," ","c","o","n","c","e","r","n"," ","y","o","u"," ","t","h","a","t"," ","I"," ","{","}","?">>, <<"W","h","a","t"," ","m","a","k","e","s"," ","y","o","u"," ","a","s","k"," ","t","h","a","t","?">>>>],
    [pattern |-> <<"i","'","m"," ">> \o <<DotStar>>,
     phrases |-> <<<<"H","o","w"," ","d","o","e","s"," ","b","e","i","n","g"," ","{","}"," ","m","a","k","e"," ","y","o","u"," ","f","e","e","l","?">>, <<"D","o"," ","y","o","u"," ","e","n","j","o","y"," ","b","e","i","n","g"," ","{","}","?">>>>],
    [pattern |-> <<"b","e","c","a","u","s","e"," ">> \o <<DotStar>>,
     phrases |-> <<<<"I","s"," ","t","h","a","t"," ","t","h","e"," ","r","e","a","l"," ","r","e","a","s","o","n","?">>, <<"W","h","a","t"," ","o","t","h","e","r"," ","r","e","a","s","o","n","s"," ","m","i","g","h","t"," ","t","h","e","r","e"," ","b","e","?">>,
                   <<"D","o","e","s"," ","t","h","a","t"," ","r","e","a","s","o","n"," ","e","x","p","l","a","i","n"," ","e","v","e","r","y","t","h","i","n","g","?">>>>],
    [pattern |-> <<"y","e","s">>,
     phrases |-> <<<<"Y","o","u"," ","s","e","e","m"," ","q","u","i","t","e"," ","s","u","r","e",".">>, <<"I"," ","u","n","d","e","r","s","t","a","n","d",".">>>>],
    [pattern |-> <<"n","o">>,
     phrases |-> <<<<"W","h","y"," ","n","o","t","?">>, <<"C","a","n"," ","y","o","u"," ","e","x","p","l","a","i","n"," ","w","h","y","?">>>>],
    [pattern |-> <<"y","o","u"," ","a","r","e"," ">> \o <<DotStar>>,
     phrases |-> <<<<"W","h","a","t"," ","m","a","k","e","s"," ","y","o","u"," ","t","h","i","n","k"," ","I"," ","a","m"," ","{","}","?">>,
                   <<"D","o","e","s"," ","i","t"," ","p","l","e","a","s","e"," ","y","o","u"," ","t","o"," ","t","h","i","n","k"," ","t","h","a","t"," ","I"," ","a","m"," ","{","}","?">>>>],
    [pattern |-> <<"i"," ","w","a","n","t"," ">> \o <<DotStar>>,
     phrases |-> <<<<"W","h","y"," ","d","o"," ","y","o","u"," ","w","a","n","t"," ","{","}","?">>, <<"W","h","a","t"," ","w","o","u","l","d"," ","i","t"," ","m","e","a","n"," ","i","f"," ","y","o","u"," ","g","o","t"," ","{","}","?">>>>],
    [pattern |-> <<"c","a","n"," ","y","o","u"," ">> \o <<DotStar>>,
     phrases |-> <<<<"W","h","y"," ","d","o"," ","y","o","u"," ","a","s","k","?">>, <<"P","e","r","h","a","p","s"," ","y","o","u"," ","b","e","l","i","e","v","e"," ","I"," ","c","a","n"," ","{","}","?">>>>]
>>

\* responses: the rules in the dict's insertion order, which the for loop follows
responses == <<
    [pattern |-> <<"i"," ","f","e","e","l"," ">> \o <<DotStar>>,
     phrases |-> <<<<"W","h","y"," ","d","o"," ","y","o","u"," ","f","e","e","l"," ","{","}","?">>, <<"H","o","w"," ","l","o","n","g"," ","h","a","v","e"," ","y","o","u"," ","f","e","l","t"," ","{","}","?">>,
                   <<"D","o"," ","y","o","u"," ","t","h","i","n","k"," ","f","e","e","l","i","n","g"," ","{","}"," ","i","s"," ","n","o","r","m","a","l","?">>>>],
    [pattern |-> <<"w","h","y"," ","d","o"," ","y","o","u"," ">> \o <<DotStar>>,
     phrases |-> <<<<"W","h","y"," ","d","o","e","s"," ","i","t"," ","c","o","n","c","e","r","n"," ","y","o","u"," ","t","h","a","t"," ","I"," ","{","}","?">>, <<"W","h","a","t"," ","m","a","k","e","s"," ","y","o","u"," ","a","s","k"," ","t","h","a","t","?">>>>],
    [pattern |-> <<"i","'","m"," ">> \o <<DotStar>>,
     phrases |-> <<<<"H","o","w"," ","d","o","e","s"," ","b","e","i","n","g"," ","{","}"," ","m","a","k","e"," ","y","o","u"," ","f","e","e","l","?">>, <<"D","o"," ","y","o","u"," ","e","n","j","o","y"," ","b","e","i","n","g"," ","{","}","?">>>>],
    [pattern |-> <<"i"," ">> \o <<DotStar>> \o <<" ","y","o","u">>,
     phrases |-> <<<<"W","h","y"," ","d","o"," ","y","o","u"," ","{","}"," ","m","e","?">>, <<"W","h","a","t"," ","m","a","k","e","s"," ","y","o","u"," ","t","h","i","n","k"," ","y","o","u"," ","{","}"," ","m","e","?">>>>],
    [pattern |-> <<"b","e","c","a","u","s","e"," ">> \o <<DotStar>>,
     phrases |-> <<<<"I","s"," ","t","h","a","t"," ","t","h","e"," ","r","e","a","l"," ","r","e","a","s","o","n","?">>, <<"W","h","a","t"," ","o","t","h","e","r"," ","r","e","a","s","o","n","s"," ","m","i","g","h","t"," ","t","h","e","r","e"," ","b","e","?">>,
                   <<"D","o","e","s"," ","t","h","a","t"," ","r","e","a","s","o","n"," ","e","x","p","l","a","i","n"," ","e","v","e","r","y","t","h","i","n","g","?">>>>],
    [pattern |-> <<"y","e","s">>,
     phrases |-> <<<<"Y","o","u"," ","s","e","e","m"," ","q","u","i","t","e"," ","s","u","r","e",".">>, <<"I"," ","u","n","d","e","r","s","t","a","n","d",".">>>>],
    [pattern |-> <<"n","o">>,
     phrases |-> <<<<"W","h","y"," ","n","o","t","?">>, <<"C","a","n"," ","y","o","u"," ","e","x","p","l","a","i","n"," ","w","h","y","?">>>>],
    [pattern |-> <<"y","o","u"," ","a","r","e"," ">> \o <<DotStar>>,
     phrases |-> <<<<"W","h","a","t"," ","m","a","k","e","s"," ","y","o","u"," ","t","h","i","n","k"," ","I"," ","a","m"," ","{","}","?">>,
                   <<"D","o","e","s"," ","i","t"," ","p","l","e","a","s","e"," ","y","o","u"," ","t","o"," ","t","h","i","n","k"," ","t","h","a","t"," ","I"," ","a","m"," ","{","}","?">>>>],
    [pattern |-> <<"i"," ","w","a","n","t"," ">> \o <<DotStar>>,
     phrases |-> <<<<"W","h","y"," ","d","o"," ","y","o","u"," ","w","a","n","t"," ","{","}","?">>, <<"W","h","a","t"," ","w","o","u","l","d"," ","i","t"," ","m","e","a","n"," ","i","f"," ","y","o","u"," ","g","o","t"," ","{","}","?">>>>],
    [pattern |-> <<"c","a","n"," ","y","o","u"," ">> \o <<DotStar>>,
     phrases |-> <<<<"W","h","y"," ","d","o"," ","y","o","u"," ","a","s","k","?">>, <<"P","e","r","h","a","p","s"," ","y","o","u"," ","b","e","l","i","e","v","e"," ","I"," ","c","a","n"," ","{","}","?">>>>]
>>

\* the table with the second person sent back to the first as well
reflections_both_ways == <<
    <<<<"i"," ","a","m">>, <<"y","o","u"," ","a","r","e">>>>,
    <<<<"i","'","m">>, <<"y","o","u"," ","a","r","e">>>>,
    <<<<"i"," ","h","a","v","e">>, <<"y","o","u"," ","h","a","v","e">>>>,
    <<<<"i"," ","w","a","s">>, <<"y","o","u"," ","w","e","r","e">>>>,
    <<<<"i">>, <<"y","o","u">>>>,
    <<<<"m","e">>, <<"y","o","u">>>>,
    <<<<"m","y">>, <<"y","o","u","r">>>>,
    <<<<"y","o","u">>, <<"I">>>>,
    <<<<"y","o","u","r">>, <<"m","y">>>>,
    <<<<"y","o","u"," ","a","r","e">>, <<"I"," ","a","m">>>>,
    <<<<"y","o","u"," ","h","a","v","e">>, <<"I"," ","h","a","v","e">>>>,
    <<<<"y","o","u"," ","w","e","r","e">>, <<"I"," ","w","a","s">>>>
>>

\* reflections: <<key, value>> in the dict's order
reflections == <<
    <<<<"i"," ","a","m">>, <<"y","o","u"," ","a","r","e">>>>,
    <<<<"i","'","m">>, <<"y","o","u"," ","a","r","e">>>>,
    <<<<"i"," ","h","a","v","e">>, <<"y","o","u"," ","h","a","v","e">>>>,
    <<<<"i"," ","w","a","s">>, <<"y","o","u"," ","w","e","r","e">>>>,
    <<<<"i">>, <<"y","o","u">>>>,
    <<<<"m","e">>, <<"y","o","u">>>>,
    <<<<"m","y">>, <<"y","o","u","r">>>>,
    <<<<"y","o","u"," ","a","r","e">>, <<"I"," ","a","m">>>>,
    <<<<"y","o","u"," ","h","a","v","e">>, <<"I"," ","h","a","v","e">>>>,
    <<<<"y","o","u"," ","w","e","r","e">>, <<"I"," ","w","a","s">>>>
>>

default_responses == <<
    <<"T","e","l","l"," ","m","e"," ","m","o","r","e",".">>,
    <<"W","h","y"," ","d","o"," ","y","o","u"," ","s","a","y"," ","t","h","a","t","?">>,
    <<"H","o","w"," ","d","o","e","s"," ","t","h","a","t"," ","m","a","k","e"," ","y","o","u"," ","f","e","e","l","?">>,
    <<"C","a","n"," ","y","o","u"," ","e","l","a","b","o","r","a","t","e","?">>,
    <<"T","h","a","t"," ","i","s"," ","v","e","r","y"," ","i","n","t","e","r","e","s","t","i","n","g",".">>
>>

\* the lines that end the session
sentinels == {<<"b","y","e">>, <<"e","x","i","t">>, <<"q","u","i","t">>}

Banner  == <<"E","l","i","z","a",":"," ","H","e","l","l","o",","," ","I","'","m"," ","E","l","i","z","a","."," ","W","h","a","t","'","s"," ","o","n"," ","y","o","u","r"," ","m","i","n","d","?">>
Prompt  == <<"Y","o","u",":"," ">>
Goodbye == <<"E","l","i","z","a",":"," ","G","o","o","d","b","y","e","!"," ","I","t"," ","w","a","s"," ","n","i","c","e"," ","t","a","l","k","i","n","g"," ","t","o"," ","y","o","u",".">>

\* print("Eliza:", text): the line written
EchoLine(text) == <<"E","l","i","z","a",":"," ">> \o text

(* ---------------------------------------------------------------------- *)
(* reflect                                                                *)
(* ---------------------------------------------------------------------- *)

\* reflections.get(word, word)
reflections_get(word) ==
    IF \E k \in 1..Len(reflections) : reflections[k][1] = word
    THEN reflections[CHOOSE k \in 1..Len(reflections) : reflections[k][1] = word][2]
    ELSE word

\* a reflector that looks two words up together before it looks one up
RECURSIVE ReflectPhrases(_, _)
ReflectPhrases(words, k) ==
    IF k > Len(words) THEN <<>>
    ELSE IF k < Len(words) /\ reflections_get(str_join(<<words[k], words[k + 1]>>))
                                # str_join(<<words[k], words[k + 1]>>)
         THEN <<reflections_get(str_join(<<words[k], words[k + 1]>>))>>
              \o ReflectPhrases(words, k + 2)
         ELSE <<reflections_get(words[k])>> \o ReflectPhrases(words, k + 1)

reflect_phrases(sentence) ==
    str_join(ReflectPhrases(str_split(str_lower(sentence)), 1))

reflect(sentence) ==
    LET words == str_split(str_lower(sentence))
    IN  str_join([k \in 1..Len(words) |-> reflections_get(words[k])])

(* ---------------------------------------------------------------------- *)
(* re.match(pattern, string, re.IGNORECASE)                               *)
(* ---------------------------------------------------------------------- *)

NoMatch == [ok |-> FALSE, groups |-> <<>>]

\* "." takes any character but the newline
Dot(c) == c # "\n"

\* the match of pat[pi..] at s[si..]: a literal takes one character, compared
\* without case; "(.*)" takes the longest run that lets the rest match
RECURSIVE MatchFrom(_, _, _, _)
MatchFrom(pat, s, pi, si) ==
    IF pi > Len(pat) THEN [ok |-> TRUE, groups |-> <<>>]
    ELSE IF pat[pi] = DotStar
    THEN LET ends == {e \in (si - 1)..Len(s) :
                         /\ \A k \in si..e : Dot(s[k])
                         /\ MatchFrom(pat, s, pi + 1, e + 1).ok}
         IN  IF ends = {} THEN NoMatch
             ELSE LET e == CHOOSE x \in ends : \A y \in ends : y <= x
                      rest == MatchFrom(pat, s, pi + 1, e + 1)
                  IN  [ok |-> TRUE, groups |-> <<SubSeq(s, si, e)>> \o rest.groups]
    ELSE IF si <= Len(s) /\ Lower(pat[pi]) = Lower(s[si])
         THEN MatchFrom(pat, s, pi + 1, si + 1)
         ELSE NoMatch

\* patterns whose parentheses capture nothing: the match has no groups
re_match_nogroups(pat, s) ==
    [ok |-> MatchFrom(pat, s, 1, 1).ok, groups |-> <<>>]

\* re.fullmatch in the place of re.match: a pattern with no group has to take
\* the whole string
re_fullmatch(pat, s) ==
    IF (\A k \in 1..Len(pat) : pat[k] # DotStar) /\ Len(s) # Len(pat)
    THEN NoMatch
    ELSE MatchFrom(pat, s, 1, 1)

re_match(pat, s) == MatchFrom(pat, s, 1, 1)

(* ---------------------------------------------------------------------- *)
(* str.format with "{}" fields                                            *)
(* ---------------------------------------------------------------------- *)

\* the text of phrase[k..] with each "{}" replaced by the next of args, from
\* args[n]; a field with no argument left raises IndexError (ok = FALSE), and
\* arguments left over are ignored
RECURSIVE FormatFrom(_, _, _, _)
FormatFrom(phrase, args, k, n) ==
    IF k > Len(phrase) THEN [ok |-> TRUE, text |-> <<>>]
    ELSE IF phrase[k] = "{" /\ k < Len(phrase) /\ phrase[k + 1] = "}"
    THEN IF n > Len(args) THEN [ok |-> FALSE, text |-> <<>>]
         ELSE LET rest == FormatFrom(phrase, args, k + 2, n + 1)
              IN  [ok |-> rest.ok, text |-> args[n] \o rest.text]
    ELSE LET rest == FormatFrom(phrase, args, k + 1, n)
         IN  [ok |-> rest.ok, text |-> <<phrase[k]>> \o rest.text]

str_format(phrase, args) == FormatFrom(phrase, args, 1, 1)

\* [reflect(g) for g in match.groups()]
ReflectedGroups(groups) == [k \in 1..Len(groups) |-> reflect(groups[k])]

(* ---------------------------------------------------------------------- *)
(* The input lines                                                        *)
(* ---------------------------------------------------------------------- *)

\* how a line begins: the heads of the ten rules, in some letter cases, near
\* misses of them, the sentinels, and nothing
Heads == {
    <<>>, <<"i"," ","f","e","e","l"," ">>, <<"I"," ","F","e","e","l"," ">>, <<"w","h","y"," ","d","o"," ","y","o","u"," ">>, <<"i","'","m"," ">>, <<"i"," ">>, <<"b","e","c","a","u","s","e"," ">>,
    <<"y","e","s">>, <<"Y","e","s">>, <<"n","o">>, <<"y","o","u"," ","a","r","e"," ">>, <<"i"," ","w","a","n","t"," ">>, <<"c","a","n"," ","y","o","u"," ">>,
    <<"b","y","e">>, <<"E","x","i","t">>, <<"Q","U","I","T">>, <<"q","w","e","r","t","y">>
}

\* the words that follow, the empty word included (it doubles a space)
Words == { <<>>, <<"i"," ","a","m">>, <<"y","o","u">>, <<"I","'","m">>, <<"m","y","\t","M","E">> }

RECURSIVE Bodies(_)
Bodies(n) ==
    IF n = 0 THEN { <<>> }
    ELSE Bodies(n - 1) \cup
         { str_join(ws) : ws \in [1..n -> Words] }

Lines == { h \o b : h \in Heads, b \in Bodies(MaxWords) }

(* ---------------------------------------------------------------------- *)
(* eliza_chat                                                             *)
(* ---------------------------------------------------------------------- *)

Init ==
    /\ pc = "start"
    /\ input_text = <<>>
    /\ pattern_i = 0
    /\ matched = FALSE
    /\ stdout = <<>>
    /\ eof = FALSE

\* print("Eliza: Hello, ...")
Greet ==
    /\ pc = "start"
    /\ pc' = "input"
    /\ stdout' = <<Banner>>
    /\ UNCHANGED <<input_text, pattern_i, matched, eof>>

\* input_text = input("You: ") when the stream has a line: stdout holds what
\* was written since this prompt
InputLine ==
    /\ pc = "input"
    /\ \E line \in Lines : input_text' = line
    /\ stdout' = <<Prompt>>
    /\ pc' = "check"
    /\ UNCHANGED <<pattern_i, matched, eof>>

\* input("You: ") at the end of the stream: EOFError, which nothing catches
InputEOF ==
    /\ pc = "input"
    /\ stdout' = <<Prompt>>
    /\ eof' = TRUE
    /\ pc' = "EOFError"
    /\ UNCHANGED <<input_text, pattern_i, matched>>

\* the sentinel test without .lower()
CheckExit_nolower ==
    /\ pc = "check"
    /\ IF input_text \in sentinels
       THEN /\ stdout' = Append(stdout, Goodbye)
            /\ pc' = "done"
            /\ UNCHANGED <<pattern_i, matched>>
       ELSE /\ matched' = FALSE
            /\ pattern_i' = 1
            /\ pc' = "for"
            /\ UNCHANGED stdout
    /\ UNCHANGED <<input_text, eof>>

\* if input_text.lower() in ["bye", "exit", "quit"]: ... break; else matched = False
CheckExit ==
    /\ pc = "check"
    /\ IF str_lower(input_text) \in sentinels
       THEN /\ stdout' = Append(stdout, Goodbye)
            /\ pc' = "done"
            /\ UNCHANGED <<pattern_i, matched>>
       ELSE /\ matched' = FALSE
            /\ pattern_i' = 1
            /\ pc' = "for"
            /\ UNCHANGED stdout
    /\ UNCHANGED <<input_text, eof>>

\* the loop without its break: it goes on to the next rule after a reply
ForStep_nobreak ==
    /\ pc = "for"
    /\ IF pattern_i > Len(responses)
       THEN /\ pc' = "after"
            /\ UNCHANGED <<pattern_i, matched, stdout>>
       ELSE LET match == re_match(responses[pattern_i].pattern, input_text)
            IN  IF match.ok
                THEN \E c \in 1..Len(responses[pattern_i].phrases) :
                        LET response == str_format(responses[pattern_i].phrases[c],
                                                   ReflectedGroups(match.groups))
                        IN  IF response.ok
                            THEN /\ stdout' = Append(stdout, EchoLine(response.text))
                                 /\ matched' = TRUE
                                 /\ pattern_i' = pattern_i + 1
                                 /\ UNCHANGED pc
                            ELSE /\ pc' = "IndexError"
                                 /\ UNCHANGED <<pattern_i, matched, stdout>>
                ELSE /\ pattern_i' = pattern_i + 1
                     /\ UNCHANGED <<pc, matched, stdout>>
    /\ UNCHANGED <<input_text, eof>>

\* the loop without "matched = True"
ForStep_noflag ==
    /\ pc = "for"
    /\ IF pattern_i > Len(responses)
       THEN /\ pc' = "after"
            /\ UNCHANGED <<pattern_i, matched, stdout>>
       ELSE LET match == re_match(responses[pattern_i].pattern, input_text)
            IN  IF match.ok
                THEN \E c \in 1..Len(responses[pattern_i].phrases) :
                        LET response == str_format(responses[pattern_i].phrases[c],
                                                   ReflectedGroups(match.groups))
                        IN  IF response.ok
                            THEN /\ stdout' = Append(stdout, EchoLine(response.text))
                                 /\ pc' = "after"
                                 /\ UNCHANGED <<pattern_i, matched>>
                            ELSE /\ pc' = "IndexError"
                                 /\ UNCHANGED <<pattern_i, matched, stdout>>
                ELSE /\ pattern_i' = pattern_i + 1
                     /\ UNCHANGED <<pc, matched, stdout>>
    /\ UNCHANGED <<input_text, eof>>

\* one pass of "for pattern, phrases in responses.items()"
ForStep ==
    /\ pc = "for"
    /\ IF pattern_i > Len(responses)
       THEN /\ pc' = "after"
            /\ UNCHANGED <<pattern_i, matched, stdout>>
       ELSE LET match == re_match(responses[pattern_i].pattern, input_text)
            IN  IF match.ok
                THEN \E c \in 1..Len(responses[pattern_i].phrases) :
                        LET response == str_format(responses[pattern_i].phrases[c],
                                                   ReflectedGroups(match.groups))
                        IN  IF response.ok
                            THEN /\ stdout' = Append(stdout, EchoLine(response.text))
                                 /\ matched' = TRUE
                                 /\ pc' = "after"
                                 /\ UNCHANGED pattern_i
                            ELSE /\ pc' = "IndexError"
                                 /\ UNCHANGED <<pattern_i, matched, stdout>>
                ELSE /\ pattern_i' = pattern_i + 1
                     /\ UNCHANGED <<pc, matched, stdout>>
    /\ UNCHANGED <<input_text, eof>>

\* the fallback printed in every turn, matched or not
AfterLoop_always ==
    /\ pc = "after"
    /\ \E c \in 1..Len(default_responses) :
          stdout' = Append(stdout, EchoLine(default_responses[c]))
    /\ pc' = "input"
    /\ UNCHANGED <<input_text, pattern_i, matched, eof>>

\* if not matched: print("Eliza:", random.choice(default_responses)); back to the top
AfterLoop ==
    /\ pc = "after"
    /\ IF ~matched
       THEN \E c \in 1..Len(default_responses) :
               stdout' = Append(stdout, EchoLine(default_responses[c]))
       ELSE UNCHANGED stdout
    /\ pc' = "input"
    /\ UNCHANGED <<input_text, pattern_i, matched, eof>>

Next == Greet \/ InputLine \/ InputEOF \/ CheckExit \/ ForStep \/ AfterLoop

Spec == Init /\ [][Next]_vars

(* ---------------------------------------------------------------------- *)
(* What the properties speak of                                           *)
(* ---------------------------------------------------------------------- *)

\* a turn is over: the line in input_text has been answered and the loop is
\* back at the top, about to read
Replied == pc = "input" /\ stdout # <<>> /\ stdout[1] = Prompt

\* the rules whose pattern matches a line
RulesMatching(line) ==
    {r \in 1..Len(responses) : re_match(responses[r].pattern, line).ok}

\* the replies rule r can give to a line
RuleReplies(r, line) ==
    {EchoLine(str_format(responses[r].phrases[c],
                         ReflectedGroups(re_match(responses[r].pattern, line).groups)).text) :
        c \in 1..Len(responses[r].phrases)}

FallbackReplies == {EchoLine(default_responses[c]) : c \in 1..Len(default_responses)}

\* s begins with lit, letter case aside
StartsWithCI(s, lit) ==
    /\ Len(s) >= Len(lit)
    /\ \A k \in 1..Len(lit) : Lower(s[k]) = lit[k]

\* sub occurs in s
Contains(s, sub) ==
    \E k \in 1..(Len(s) - Len(sub) + 1) : SubSeq(s, k, k + Len(sub) - 1) = sub

\* the number of "{}" fields of a phrase
RECURSIVE NumFields(_)
NumFields(phrase) ==
    IF Len(phrase) < 2 THEN 0
    ELSE IF phrase[1] = "{" /\ phrase[2] = "}"
         THEN 1 + NumFields(SubSeq(phrase, 3, Len(phrase)))
         ELSE NumFields(Tail(phrase))

\* the groups the rule that answered took from the line
FiredGroups == re_match(responses[pattern_i].pattern, input_text).groups

(* ---------------------------------------------------------------------- *)
(* C1                                                                     *)
(* ---------------------------------------------------------------------- *)

\* C1: a line that more than one rule matches is answered once, by a phrase of
\* the matching rule that comes first in the table, and by no phrase of a later
\* matching rule; "i want you", which rules 4 and 9 match, gets a rule 4 reply.
C1_FirstMatchWins ==
    Replied /\ Cardinality(RulesMatching(input_text)) > 1 =>
        LET first == CHOOSE r \in RulesMatching(input_text) :
                        \A q \in RulesMatching(input_text) : r <= q
        IN  /\ matched
            /\ pattern_i = first
            /\ Len(stdout) = 2
            /\ stdout[2] \in RuleReplies(first, input_text)
            /\ \A q \in RulesMatching(input_text) \ {first} :
                  stdout[2] \notin RuleReplies(q, input_text)
            /\ stdout[2] \notin FallbackReplies
            /\ input_text = <<"i"," ","w","a","n","t"," ","y","o","u">> =>
                  stdout[2] \in {<<"E","l","i","z","a",":"," ","W","h","y"," ","d","o"," ","y","o","u"," ","w","a","n","t"," ","m","e","?">>,
                                 <<"E","l","i","z","a",":"," ","W","h","a","t"," ","m","a","k","e","s"," ","y","o","u"," ","t","h","i","n","k"," ","y","o","u"," ","w","a","n","t"," ","m","e","?">>}

C1_Witness ==
    /\ Replied
    /\ input_text = <<"i"," ","w","a","n","t"," ","y","o","u">>
    /\ RulesMatching(input_text) = {4, 9}
    /\ stdout[2] = <<"E","l","i","z","a",":"," ","W","h","y"," ","d","o"," ","y","o","u"," ","w","a","n","t"," ","m","e","?">>

(* ---------------------------------------------------------------------- *)
(* C2                                                                     *)
(* ---------------------------------------------------------------------- *)

\* the line is "i feel " in any letter case and then a remainder that is not empty
IsIFeelX(s) ==
    /\ Len(s) > 7
    /\ s[1] \in {"i", "I"} /\ s[2] = " "
    /\ s[3] \in {"f", "F"} /\ s[4] \in {"e", "E"} /\ s[5] \in {"e", "E"}
    /\ s[6] \in {"l", "L"} /\ s[7] = " "

\* C2: a line "i feel X", in any letter case and with X not empty, is answered
\* by one of the three phrases of rule 1 with reflect(X) in the place of "{}".
C2_IFeel ==
    Replied /\ IsIFeelX(input_text) =>
        LET X == SubSeq(input_text, 8, Len(input_text))
        IN  /\ Len(stdout) = 2
            /\ stdout[2] \in
                  {<<"E","l","i","z","a",":"," ","W","h","y"," ","d","o"," ","y","o","u"," ","f","e","e","l"," ">> \o reflect(X) \o <<"?">>,
                   <<"E","l","i","z","a",":"," ","H","o","w"," ","l","o","n","g"," ","h","a","v","e"," ","y","o","u"," ","f","e","l","t"," ">> \o reflect(X) \o <<"?">>,
                   <<"E","l","i","z","a",":"," ","D","o"," ","y","o","u"," ","t","h","i","n","k"," ","f","e","e","l","i","n","g"," ">> \o reflect(X) \o <<" ","i","s"," ","n","o","r","m","a","l","?">>}

C2_Witness ==
    /\ Replied
    /\ input_text = <<"I"," ","F","e","e","l"," ","m","y","\t","M","E"," ","y","o","u">>
    /\ stdout[2] = <<"E","l","i","z","a",":"," ","H","o","w"," ","l","o","n","g"," ","h","a","v","e"," ","y","o","u"," ","f","e","l","t"," ","y","o","u","r"," ","y","o","u"," ","y","o","u","?">>

(* ---------------------------------------------------------------------- *)
(* C3                                                                     *)
(* ---------------------------------------------------------------------- *)

C4_WholeLineLiteral ==
    Replied =>
        /\ (matched /\ pattern_i = 6) <=> str_lower(input_text) = <<"y","e","s">>
        /\ (matched /\ pattern_i = 7) <=> str_lower(input_text) = <<"n","o">>

\* C4, amended: rule 6 answers exactly the lines that begin with "yes", letter
\* case aside, whatever follows; rule 7 exactly those that begin with "no".
C4_PrefixLiteral ==
    Replied =>
        /\ (matched /\ pattern_i = 6) <=> StartsWithCI(input_text, <<"y","e","s">>)
        /\ (matched /\ pattern_i = 7) <=> StartsWithCI(input_text, <<"n","o">>)
        /\ StartsWithCI(input_text, <<"y","e","s">>) =>
              stdout = <<Prompt, <<"E","l","i","z","a",":"," ","Y","o","u"," ","s","e","e","m"," ","q","u","i","t","e"," ","s","u","r","e",".">>>>
              \/ stdout = <<Prompt, <<"E","l","i","z","a",":"," ","I"," ","u","n","d","e","r","s","t","a","n","d",".">>>>
        /\ StartsWithCI(input_text, <<"n","o">>) =>
              stdout = <<Prompt, <<"E","l","i","z","a",":"," ","W","h","y"," ","n","o","t","?">>>>
              \/ stdout = <<Prompt, <<"E","l","i","z","a",":"," ","C","a","n"," ","y","o","u"," ","e","x","p","l","a","i","n"," ","w","h","y","?">>>>

C4_Witness ==
    /\ Replied /\ matched
    /\ pattern_i = 6
    /\ input_text = <<"Y","e","s"," ","y","o","u">>
    /\ stdout[2] = <<"E","l","i","z","a",":"," ","I"," ","u","n","d","e","r","s","t","a","n","d",".">>

(* ---------------------------------------------------------------------- *)
(* C5                                                                     *)
(* ---------------------------------------------------------------------- *)

\* C5: a line that no rule matches is answered by one of the five fallback
\* strings as it stands and by nothing else, and a fallback string is written
\* only in a turn whose line no rule matches.
C5_Fallback ==
    Replied =>
        /\ RulesMatching(input_text) = {} =>
              Len(stdout) = 2 /\ stdout[2] \in FallbackReplies
        /\ (\E k \in 2..Len(stdout) : stdout[k] \in FallbackReplies) =>
              RulesMatching(input_text) = {}

C5_Witness ==
    /\ Replied /\ ~matched
    /\ input_text = <<>>
    /\ stdout = <<Prompt, <<"E","l","i","z","a",":"," ","T","e","l","l"," ","m","e"," ","m","o","r","e",".">>>>

(* ---------------------------------------------------------------------- *)
(* C6                                                                     *)
(* ---------------------------------------------------------------------- *)

\* C6: when the line just read is "bye", "exit" or "quit" in any letter case,
\* the next step writes the goodbye and ends the session without entering the
\* rule loop, and once the session has ended nothing is read or written again.
C6_SentinelEnds ==
    [][ /\ (pc = "check" /\ str_lower(input_text) \in sentinels) =>
              /\ pc' = "done"
              /\ stdout' = <<Prompt, Goodbye>>
              /\ UNCHANGED <<input_text, pattern_i, matched>>
        /\ pc = "done" => UNCHANGED vars
        /\ pc' = "done" => str_lower(input_text) \in sentinels ]_vars

C6_Witness ==
    /\ pc = "done"
    /\ input_text = <<"E","x","i","t">>
    /\ stdout = <<Prompt, Goodbye>>

(* ---------------------------------------------------------------------- *)
(* C7                                                                     *)
(* ---------------------------------------------------------------------- *)

\* C7: once the end of the input stream has been signalled, the session has
\* ended as it does on a sentinel, and not by an exception.
C7_EOFEndsNormally == eof => pc = "done"

(* ---------------------------------------------------------------------- *)
(* C8                                                                     *)
(* ---------------------------------------------------------------------- *)

\* the keys of the reflection table that are one word
SingleWordKeys ==
    {reflections[k][1] : k \in {j \in 1..Len(reflections) :
                                  \A n \in 1..Len(reflections[j][1]) :
                                      reflections[j][1][n] \notin Whitespace}}

\* a token by the table's one-word entries alone
TokenReflect(tok) ==
    IF tok \in SingleWordKeys
    THEN reflections[CHOOSE k \in 1..Len(reflections) : reflections[k][1] = tok][2]
    ELSE tok

\* the sentence token by token
TokenwiseReflect(sentence) ==
    LET toks == str_split(str_lower(sentence))
    IN  str_join([k \in 1..Len(toks) |-> TokenReflect(toks[k])])

\* C8: the reply of a rule carries each group reflected one lower-cased token
\* at a time through the one-word keys only; the group "i am" comes out as
\* "you am", "I'm" as "you are", "my<TAB>ME" as "your you", and the empty group
\* as the empty string.
C8_ReflectTokenwise ==
    Replied /\ matched =>
        /\ stdout[2] \in
              {EchoLine(str_format(responses[pattern_i].phrases[c],
                                   [k \in 1..Len(FiredGroups) |->
                                       TokenwiseReflect(FiredGroups[k])]).text) :
                  c \in 1..Len(responses[pattern_i].phrases)}
        /\ input_text = <<"i"," ","f","e","e","l"," ","i"," ","a","m">> =>
              stdout[2] \in {<<"E","l","i","z","a",":"," ","W","h","y"," ","d","o"," ","y","o","u"," ","f","e","e","l"," ","y","o","u"," ","a","m","?">>,
                             <<"E","l","i","z","a",":"," ","H","o","w"," ","l","o","n","g"," ","h","a","v","e"," ","y","o","u"," ","f","e","l","t"," ","y","o","u"," ","a","m","?">>,
                             <<"E","l","i","z","a",":"," ","D","o"," ","y","o","u"," ","t","h","i","n","k"," ","f","e","e","l","i","n","g"," ","y","o","u"," ","a","m"," ","i","s"," ","n","o","r","m","a","l","?">>}
        /\ input_text = <<"i"," ","w","a","n","t"," ","I","'","m">> =>
              stdout[2] \in {<<"E","l","i","z","a",":"," ","W","h","y"," ","d","o"," ","y","o","u"," ","w","a","n","t"," ","y","o","u"," ","a","r","e","?">>,
                             <<"E","l","i","z","a",":"," ","W","h","a","t"," ","w","o","u","l","d"," ","i","t"," ","m","e","a","n"," ","i","f"," ","y","o","u"," ","g","o","t"," ","y","o","u"," ","a","r","e","?">>}
        /\ input_text = <<"i","'","m"," ","m","y","\t","M","E">> =>
              stdout[2] \in {<<"E","l","i","z","a",":"," ","H","o","w"," ","d","o","e","s"," ","b","e","i","n","g"," ","y","o","u","r"," ","y","o","u"," ","m","a","k","e"," ","y","o","u"," ","f","e","e","l","?">>,
                             <<"E","l","i","z","a",":"," ","D","o"," ","y","o","u"," ","e","n","j","o","y"," ","b","e","i","n","g"," ","y","o","u","r"," ","y","o","u","?">>}
        /\ input_text = <<"i"," ","f","e","e","l"," ">> =>
              stdout[2] \in {<<"E","l","i","z","a",":"," ","W","h","y"," ","d","o"," ","y","o","u"," ","f","e","e","l"," ","?">>,
                             <<"E","l","i","z","a",":"," ","H","o","w"," ","l","o","n","g"," ","h","a","v","e"," ","y","o","u"," ","f","e","l","t"," ","?">>,
                             <<"E","l","i","z","a",":"," ","D","o"," ","y","o","u"," ","t","h","i","n","k"," ","f","e","e","l","i","n","g"," "," ","i","s"," ","n","o","r","m","a","l","?">>}

C8_Witness ==
    /\ Replied /\ matched
    /\ input_text = <<"i"," ","f","e","e","l"," ","i"," ","a","m">>
    /\ FiredGroups = << <<"i"," ","a","m">> >>
    /\ stdout[2] = <<"E","l","i","z","a",":"," ","W","h","y"," ","d","o"," ","y","o","u"," ","f","e","e","l"," ","y","o","u"," ","a","m","?">>

(* ---------------------------------------------------------------------- *)
(* C9                                                                     *)
(* ---------------------------------------------------------------------- *)

\* C9: no line raises an exception, no turn writes more than one reply, and
\* when the loop is back at the top the turn has written exactly one reply:
\* a reply of a rule if a rule matched, a fallback string if none did.
C9_OneReplyPerLine ==
    /\ pc # "IndexError"
    /\ pc \in {"check", "for", "after"} =>
          /\ stdout[1] = Prompt
          /\ Len(stdout) <= 2
          /\ Len(stdout) = 2 => matched /\ pc = "after"
    /\ Replied =>
          /\ Len(stdout) = 2
          /\ matched => /\ stdout[2] \in RuleReplies(pattern_i, input_text)
                        /\ stdout[2] \notin FallbackReplies
          /\ ~matched => stdout[2] \in FallbackReplies

C9_Witness ==
    /\ Replied /\ ~matched
    /\ input_text = <<"q","w","e","r","t","y">>
    /\ stdout = <<Prompt, <<"E","l","i","z","a",":"," ","C","a","n"," ","y","o","u"," ","e","l","a","b","o","r","a","t","e","?">>>>

(* ---------------------------------------------------------------------- *)
(* C10                                                                    *)
(* ---------------------------------------------------------------------- *)

\* C10: reflecting twice is reflecting once, for the line read and for every
\* group a rule took from it, and the reflected text holds none of "I am",
\* "I have", "I was".
C10_ReflectIdempotent ==
    Replied =>
        \A s \in {input_text} \cup
                 (IF matched THEN {FiredGroups[k] : k \in 1..Len(FiredGroups)} ELSE {}) :
            /\ reflect(reflect(s)) = reflect(s)
            /\ ~Contains(reflect(s), <<"I"," ","a","m">>)
            /\ ~Contains(reflect(s), <<"I"," ","h","a","v","e">>)
            /\ ~Contains(reflect(s), <<"I"," ","w","a","s">>)

C10_Witness ==
    /\ Replied /\ matched
    /\ FiredGroups = << <<"I","'","m"," ","y","o","u">> >>
    /\ reflect(FiredGroups[1]) = <<"y","o","u"," ","a","r","e"," ","y","o","u">>
    /\ stdout[2] = <<"E","l","i","z","a",":"," ","W","h","y"," ","d","o"," ","y","o","u"," ","f","e","e","l"," ","y","o","u"," ","a","r","e"," ","y","o","u","?">>

====
